---- MODULE Spec2Model ----
(***************************************************************************)
(* Model of scripts/math_helper.py: a one-shot command line program that   *)
(* parses decimal arguments, evaluates one of three yield formulas with    *)
(* Python's decimal module at 50 significant digits and prints the result  *)
(* as a 32-byte hexadecimal word, or the sentinel 0x0 on any failure.      *)
(*                                                                         *)
(* Unbounded integers are sequences of base-1000 limbs, most significant   *)
(* first, without leading zero limbs; zero is <<0>>.  Strings are          *)
(* sequences of one-character strings.                                     *)
(***************************************************************************)
EXTENDS Integers, Sequences, FiniteSets, TLC

(***************************************************************************)
(* Unbounded naturals (Python int).  Carries and remainders are threaded   *)
(* through the limbs by halving the range, so that the evaluation depth    *)
(* grows with the logarithm of the length.                                 *)
(***************************************************************************)
Base == 1000

LimbDigits == 3

Zero == <<0>>

One == <<1>>

Zeros(n) == IF n <= 0 THEN <<>> ELSE [i \in 1..n |-> 0]

\* Python evaluates operands before it applies an operation: Eager(v, e) is e,
\* evaluated after v
Eager(v, e) == IF v = v THEN e ELSE e

\* canonical form: no leading zero limbs, at least one limb
Strip(d) ==
    IF \A i \in 1..Len(d) : d[i] = 0 THEN Zero
    ELSE SubSeq(d, CHOOSE i \in 1..Len(d) :
                       d[i] # 0 /\ \A j \in 1..(i - 1) : d[j] = 0,
                Len(d))

IsZero(d) == d = Zero

\* -1, 0, 1 as a < b, a = b, a > b
NatCmp(a, b) ==
    IF Len(a) < Len(b) THEN -1
    ELSE IF Len(a) > Len(b) THEN 1
    ELSE IF a = b THEN 0
    ELSE LET i == CHOOSE k \in 1..Len(a) :
                      a[k] # b[k] /\ \A j \in 1..(k - 1) : a[j] = b[j]
         IN  IF a[i] < b[i] THEN -1 ELSE 1

\* limb i of a counted from the least significant limb (1-based), 0 beyond
LimbLow(a, i) == IF i >= 1 /\ i <= Len(a) THEN a[Len(a) + 1 - i] ELSE 0

\* The limbs of sum(c[i] * Base^(i-1) : i \in lo..hi) + cin * Base^(lo-1),
\* most significant first, with the carry out of position hi.
RECURSIVE CarryBlock(_, _, _, _)
CarryBlock(c, lo, hi, cin) ==
    IF lo = hi
    THEN LET s == c[lo] + cin
         IN  [out |-> <<s % Base>>, carry |-> s \div Base]
    ELSE LET mid   == (lo + hi) \div 2
             lower == CarryBlock(c, lo, mid, cin)
             upper == CarryBlock(c, mid + 1, hi, lower.carry)
         IN  Eager(lower, [out |-> upper.out \o lower.out, carry |-> upper.carry])

\* the natural sum(c[i] * Base^(i-1)), for c a non-empty sequence of integers
\* whose sum is not negative
CarryResult(r) == Strip(<<r.carry>> \o r.out)

Carry(c) == CarryResult(CarryBlock(c, 1, Len(c), 0))

Max(m, n) == IF m > n THEN m ELSE n

Min(m, n) == IF m < n THEN m ELSE n

NatAdd(a, b) ==
    Carry([i \in 1..Max(Len(a), Len(b)) |-> LimbLow(a, i) + LimbLow(b, i)])

\* a - b for a >= b
NatSub(a, b) ==
    Carry([i \in 1..Len(a) |-> LimbLow(a, i) - LimbLow(b, i)])

\* a * k for a machine integer 0 <= k <= Base
NatMulSmall(a, k) == Carry([i \in 1..Len(a) |-> LimbLow(a, i) * k])

\* sum(a_i * b_(k+1-i) : i \in lo..hi), limbs counted from the low end
RECURSIVE Convolve(_, _, _, _, _)
Convolve(a, b, k, lo, hi) ==
    IF lo > hi THEN 0
    ELSE IF lo = hi THEN LimbLow(a, lo) * LimbLow(b, k + 1 - lo)
    ELSE LET mid == (lo + hi) \div 2
         IN  Convolve(a, b, k, lo, mid) + Convolve(a, b, k, mid + 1, hi)

NatMul(a, b) ==
    Carry([k \in 1..(Len(a) + Len(b) - 1) |->
             Convolve(a, b, k, Max(1, k + 1 - Len(b)), Min(k, Len(a)))])

\* a ** n by square and multiply
Square(h) == Eager(h, NatMul(h, h))

TimesIfOdd(sq, a, n) == Eager(sq, IF n % 2 = 0 THEN sq ELSE NatMul(sq, a))

RECURSIVE NatPow(_, _)
NatPow(a, n) ==
    IF n = 0 THEN One ELSE TimesIfOdd(Square(NatPow(a, n \div 2)), a, n)

\* 10 ** n
Pow10(n) ==
    <<CASE n % LimbDigits = 0 -> 1 [] n % LimbDigits = 1 -> 10 [] OTHER -> 100>>
        \o Zeros(n \div LimbDigits)

\* the largest q in lo..hi with b * q <= r, given b * lo <= r
RECURSIVE QuotLimb(_, _, _, _)
QuotLimb(r, b, lo, hi) ==
    IF lo = hi THEN lo
    ELSE LET mid == (lo + hi + 1) \div 2
         IN  IF NatCmp(NatMulSmall(b, mid), r) <= 0
             THEN QuotLimb(r, b, mid, hi)
             ELSE QuotLimb(r, b, lo, mid - 1)

\* Long division of the limbs a[lo..hi] by b, entered with remainder r
\* one step of the long division: the quotient limb d of cur by b
DivStep(cur, b, d) ==
    Eager(d, [quot |-> <<d>>, rem |-> NatSub(cur, NatMulSmall(b, d))])

DivLimb(cur, b) == DivStep(cur, b, QuotLimb(cur, b, 0, Base - 1))

RECURSIVE DivBlock(_, _, _, _, _)
DivBlock(a, b, lo, hi, r) ==
    IF lo = hi THEN DivLimb(Strip(r \o <<a[lo]>>), b)
    ELSE LET mid   == (lo + hi) \div 2
             upper == DivBlock(a, b, lo, mid, r)
             lower == DivBlock(a, b, mid + 1, hi, upper.rem)
         IN  Eager(upper, [quot |-> upper.quot \o lower.quot, rem |-> lower.rem])

\* divmod(a, b) for b > 0
DivResult(r) == [quot |-> Strip(r.quot), rem |-> r.rem]

NatDivMod(a, b) == DivResult(DivBlock(a, b, 1, Len(a), Zero))

RECURSIVE DivSmallBlock(_, _, _, _, _)
DivSmallBlock(a, k, lo, hi, r) ==
    IF lo = hi
    THEN LET cur == r * Base + a[lo]
         IN  [quot |-> <<cur \div k>>, rem |-> cur % k]
    ELSE LET mid   == (lo + hi) \div 2
             upper == DivSmallBlock(a, k, lo, mid, r)
             lower == DivSmallBlock(a, k, mid + 1, hi, upper.rem)
         IN  Eager(upper, [quot |-> upper.quot \o lower.quot, rem |-> lower.rem])

\* divmod(a, k) for a machine integer 0 < k <= Base
NatDivModSmall(a, k) == DivResult(DivSmallBlock(a, k, 1, Len(a), 0))

\* number of decimal digits of a, len(str(a))
NumDigits(a) ==
    LimbDigits * (Len(a) - 1)
        + (IF a[1] >= 100 THEN 3 ELSE IF a[1] >= 10 THEN 2 ELSE 1)

\* the natural whose decimal digits are the sequence d (d non-empty), int(d)
NatFromDigits(d) ==
    LET n == (Len(d) + LimbDigits - 1) \div LimbDigits
        dig(j) == IF j >= 1 THEN d[j] ELSE 0
    IN  Strip([i \in 1..n |->
                 LET last == Len(d) - LimbDigits * (n - i)
                 IN  100 * dig(last - 2) + 10 * dig(last - 1) + dig(last)])

\* machine integer of a natural below 10^9
NatToInt(a) ==
    IF Len(a) = 1 THEN a[1]
    ELSE IF Len(a) = 2 THEN a[1] * Base + a[2]
    ELSE (a[1] * Base + a[2]) * Base + a[3]

\* natural of a machine integer 0 <= n < 10^9
NatFromInt(n) == Strip(<<n \div (Base * Base), (n \div Base) % Base, n % Base>>)

(***************************************************************************)
(* Strings (Python str) as sequences of characters                         *)
(***************************************************************************)
DigitChars == <<"0", "1", "2", "3", "4", "5", "6", "7", "8", "9">>

HexChars == DigitChars \o <<"a", "b", "c", "d", "e", "f">>

IsDigitChar(c) == \E k \in 1..Len(DigitChars) : DigitChars[k] = c

DigitVal(c) == (CHOOSE k \in 1..Len(DigitChars) : DigitChars[k] = c) - 1

\* the first position at or after i that holds no digit, Len(s) + 1 if none
DigitsEnd(s, i) ==
    CHOOSE j \in i..(Len(s) + 1) :
        /\ j = Len(s) + 1 \/ ~IsDigitChar(s[j])
        /\ \A k \in i..(j - 1) : IsDigitChar(s[k])

\* s[i:j] as a sequence of digit values
DigitsOf(s, i, j) == [k \in 1..(j - i) |-> DigitVal(s[i + k - 1])]

(***************************************************************************)
(* decimal.Decimal at getcontext().prec significant digits.  A finite      *)
(* Decimal is (-1)^sign * int * 10^exp; the model covers finite values     *)
(* whose exponent stays far from Emin and Emax.                            *)
(***************************************************************************)
prec == 50

Dec(sign, int, exp) == [sign |-> sign, int |-> int, exp |-> exp]

\* The shape of a decimal literal: [sign] digits [. digits] [e [sign] digits]
\* with at least one digit before the exponent part.
ScanRecord(s, i0, intEnd, hasDot, fracEnd, hasExp, e0, expEnd) ==
    [neg |-> Len(s) >= 1 /\ s[1] = "-",
     i0 |-> i0, intEnd |-> intEnd, hasDot |-> hasDot, fracEnd |-> fracEnd,
     nfrac |-> IF hasDot THEN fracEnd - intEnd - 1 ELSE 0,
     hasExp |-> hasExp, e0 |-> e0, expEnd |-> expEnd,
     ok |-> /\ (intEnd - i0) + (IF hasDot THEN fracEnd - intEnd - 1 ELSE 0) >= 1
            /\ expEnd = Len(s) + 1
            /\ hasExp => expEnd > e0]

ScanExponent(s, i0, intEnd, hasDot, fracEnd) ==
    LET hasExp == fracEnd <= Len(s) /\ s[fracEnd] \in {"e", "E"}
        e0     == IF fracEnd + 1 <= Len(s) /\ s[fracEnd + 1] \in {"+", "-"}
                  THEN fracEnd + 2 ELSE fracEnd + 1
    IN  ScanRecord(s, i0, intEnd, hasDot, fracEnd, hasExp, e0,
                   IF hasExp THEN DigitsEnd(s, e0) ELSE fracEnd)

ScanFraction(s, i0, intEnd) ==
    LET hasDot == intEnd <= Len(s) /\ s[intEnd] = "."
    IN  ScanExponent(s, i0, intEnd, hasDot,
                     IF hasDot THEN DigitsEnd(s, intEnd + 1) ELSE intEnd)

ScanInteger(s, i0) == ScanFraction(s, i0, DigitsEnd(s, i0))

Scan(s) == ScanInteger(s, IF Len(s) >= 1 /\ s[1] \in {"+", "-"} THEN 2 ELSE 1)

Whitespace == {" ", "\t", "\n", "\r", "\f"}

\* s.strip()
StripSpace(s) ==
    IF \A i \in 1..Len(s) : s[i] \in Whitespace THEN <<>>
    ELSE SubSeq(s,
                CHOOSE i \in 1..Len(s) :
                    s[i] \notin Whitespace
                        /\ \A j \in 1..(i - 1) : s[j] \in Whitespace,
                CHOOSE i \in 1..Len(s) :
                    s[i] \notin Whitespace
                        /\ \A j \in (i + 1)..Len(s) : s[j] \in Whitespace)

NotUnderscore(c) == c # "_"

\* what the constructor matches: value.strip().replace("_", "")
Normal(s) == SelectSeq(StripSpace(s), NotUnderscore)

\* Decimal(s) raises InvalidOperation (ConversionSyntax).  The literals of
\* Infinity and NaN are outside the model.
ParseRaises(s) == ~Scan(Normal(s)).ok

\* the Decimal of a literal s of shape sc
Literal(s, sc) ==
    Dec(IF sc.neg THEN 1 ELSE 0,
        NatFromDigits(DigitsOf(s, sc.i0, sc.intEnd)
                          \o (IF sc.hasDot
                              THEN DigitsOf(s, sc.intEnd + 1, sc.fracEnd)
                              ELSE <<>>)),
        (IF sc.hasExp
         THEN (IF s[sc.fracEnd + 1] = "-" THEN -1 ELSE 1)
                  * NatToInt(NatFromDigits(DigitsOf(s, sc.e0, sc.expEnd)))
         ELSE 0) - sc.nfrac)

\* Decimal(s) for a valid literal: exact, never rounded to the context
ParseDecimal(s) == Literal(Normal(s), Scan(Normal(s)))

IsOdd(a) == a[Len(a)] % 2 = 1

\* the coefficient q at exponent exp, cut to prec digits when rounding up
\* carried into one more digit
Carried(sign, q, exp) ==
    IF NumDigits(q) > prec
    THEN Dec(sign, NatDivModSmall(q, 10).quot, exp + 1)
    ELSE Dec(sign, q, exp)

\* ROUND_HALF_EVEN: c compares twice the discarded digits with the unit
HalfEven(c, q) == IF c > 0 \/ (c = 0 /\ IsOdd(q)) THEN NatAdd(q, One) ELSE q

Rounded(d, drop, p, qr) ==
    Carried(d.sign, HalfEven(NatCmp(NatMulSmall(qr.rem, 2), p), qr.quot),
            d.exp + drop)

Round(d, drop, p) == Rounded(d, drop, p, NatDivMod(d.int, p))

\* Decimal._fix: round the coefficient to prec digits, ROUND_HALF_EVEN
Fix(d) ==
    IF IsZero(d.int) \/ NumDigits(d.int) <= prec THEN d
    ELSE Round(d, NumDigits(d.int) - prec, Pow10(NumDigits(d.int) - prec))

\* Decimal.__mul__
DecMul(a, b) ==
    Fix(Dec((a.sign + b.sign) % 2, NatMul(a.int, b.int), a.exp + b.exp))

\* the exact sum of sa * ai and sb * bi, at exponent e
AddAligned(sa, ai, sb, bi, e) ==
    IF sa = sb THEN Dec(sa, NatAdd(ai, bi), e)
    ELSE IF ai = bi THEN Dec(0, Zero, e)
    ELSE IF NatCmp(ai, bi) > 0 THEN Dec(sa, NatSub(ai, bi), e)
    ELSE Dec(sb, NatSub(bi, ai), e)

\* Decimal.__add__: the operands aligned on the smaller exponent, added
\* exactly, then rounded once
DecAdd(a, b) ==
    Fix(AddAligned(a.sign, NatMul(a.int, Pow10(a.exp - Min(a.exp, b.exp))),
                   b.sign, NatMul(b.int, Pow10(b.exp - Min(a.exp, b.exp))),
                   Min(a.exp, b.exp)))

\* a / b raises DivisionByZero, or InvalidOperation for 0 / 0
DivRaises(a, b) == IsZero(b.int)

\* the number of trailing decimal zeros of a # 0
TrailingZeros(a) ==
    LET k == CHOOSE i \in 1..Len(a) :
                 LimbLow(a, i) # 0 /\ \A j \in 1..(i - 1) : LimbLow(a, j) = 0
        l == LimbLow(a, k)
    IN  LimbDigits * (k - 1)
            + (IF l % 100 = 0 THEN 2 ELSE IF l % 10 = 0 THEN 1 ELSE 0)

Shifted(sign, coeff, exp, k) ==
    Dec(sign, NatDivMod(coeff, Pow10(k)).quot, exp + k)

\* while exp < ideal and coeff % 10 == 0: coeff //= 10; exp += 1
Reduce(sign, coeff, exp, ideal) ==
    Shifted(sign, coeff, exp,
            IF exp < ideal THEN Min(TrailingZeros(coeff), ideal - exp) ELSE 0)

\* the quotient and remainder qr of the shifted coefficients as a Decimal:
\* an inexact quotient that ends in 0 or 5 gets a one added, so that the
\* rounding sees the remainder
Quotient(sign, ideal, shift, qr) ==
    IF IsZero(qr.rem) THEN Reduce(sign, qr.quot, ideal - shift, ideal)
    ELSE Dec(sign,
             IF qr.quot[Len(qr.quot)] % 5 = 0 THEN NatAdd(qr.quot, One)
             ELSE qr.quot,
             ideal - shift)

\* Decimal.__truediv__ for b # 0
DecDiv(a, b) ==
    LET sign  == (a.sign + b.sign) % 2
        ideal == a.exp - b.exp
        shift == NumDigits(b.int) - NumDigits(a.int) + prec + 1
    IN  IF IsZero(a.int) THEN Dec(sign, Zero, ideal)
        ELSE Fix(Quotient(sign, ideal, shift,
                          NatDivMod(NatMul(a.int, Pow10(Max(shift, 0))),
                                    NatMul(b.int, Pow10(Max(-shift, 0))))))

\* Decimal._isinteger
IsInteger(d) ==
    d.exp >= 0 \/ IsZero(NatDivMod(d.int, Pow10(-d.exp)).rem)

\* the magnitude of int(d): truncation toward zero
Trunc(d) ==
    IF d.exp >= 0 THEN NatMul(d.int, Pow10(d.exp))
    ELSE NatDivMod(d.int, Pow10(-d.exp)).quot

\* abs(d) == Decimal(1)
IsOne(d) == d.exp <= 0 /\ d.int = Pow10(-d.exp)

\* the largest r in lo..hi with r * r <= n, for machine integers
RECURSIVE ISqrt(_, _, _)
ISqrt(n, lo, hi) ==
    IF lo = hi THEN lo
    ELSE LET mid == (lo + hi + 1) \div 2
         IN  IF mid * mid <= n THEN ISqrt(n, mid, hi) ELSE ISqrt(n, lo, mid - 1)

\* x ** y with the fault of a power that is defined for every non-zero
\* base: only 0 ** 0 raises
PowRaisesZeroOnly(x, y) == IsZero(y.int) /\ IsZero(x.int)

\* x ** y raises InvalidOperation: 0 ** 0, or a negative base with a
\* non-integer exponent
PowRaises(x, y) ==
    \/ IsZero(y.int) /\ IsZero(x.int)
    \/ ~IsZero(y.int) /\ x.sign = 1 /\ ~IsZero(x.int) /\ ~IsInteger(y)

\* x ** n for a machine integer n > 0
PowInt(x, n) ==
    LET sign == IF x.sign = 1 /\ n % 2 = 1 THEN 1 ELSE 0
    IN  IF IsZero(x.int) THEN Dec(sign, Zero, 0)
        ELSE IF IsOne(x) THEN Dec(sign, One, 0)
        ELSE Fix(Dec(sign, NatPow(x.int, n), x.exp * n))

\* (c * 10^e) ** (m / 2) for e even and c = r * r below 10^9
RootPow(c, e, m, r) ==
    CASE Len(c) <= 3 /\ r * r = NatToInt(c) ->
            Fix(Dec(0, NatPow(NatFromInt(r), m), (e \div 2) * m))

\* x ** (twoY / 2) for x >= 0 and twoY an odd integer
PowHalf(x, twoY) ==
    CASE IsInteger(twoY) ->
            IF IsZero(x.int) THEN Dec(0, Zero, 0)
            ELSE IF IsOne(x) THEN Dec(0, One, 0)
            ELSE RootPow(IF x.exp % 2 = 0 THEN x.int ELSE NatMulSmall(x.int, 10),
                         IF x.exp % 2 = 0 THEN x.exp ELSE x.exp - 1,
                         NatToInt(Trunc(twoY)),
                         ISqrt(NatToInt(IF x.exp % 2 = 0 THEN x.int
                                        ELSE NatMulSmall(x.int, 10)), 0, 31622))

\* Decimal.__pow__ where it does not raise, for y >= 0.  The value is the
\* correctly rounded power.  A non-integer exponent is covered when it is a
\* multiple of 1/2 and the base is the square of a decimal below 10^9, where
\* the power is a finite decimal; other non-integer powers are irrational
\* and lie outside the model (no case applies).
DecPow(x, y) ==
    CASE IsZero(y.int) -> Dec(0, One, 0)
      [] ~IsZero(y.int) /\ y.sign = 0 ->
            IF IsInteger(y) THEN PowInt(x, NatToInt(Trunc(y)))
            ELSE PowHalf(x, Dec(0, NatMulSmall(y.int, 2), y.exp))

(***************************************************************************)
(* int(), hex(), str.zfill() and slicing                                   *)
(***************************************************************************)
\* a Python int is a sign and a magnitude
Signed(sign, mag) == [neg |-> sign = 1 /\ ~IsZero(mag), mag |-> mag]

\* int(value) with the fault of rounding a fractional value away from zero
IntOfRoundedUp(value) ==
    Signed(value.sign,
           IF IsInteger(value) THEN Trunc(value) ELSE NatAdd(Trunc(value), One))

\* int(value): truncation toward zero
IntOf(value) == Signed(value.sign, Trunc(value))

\* 16 ** k
Pow16(k) == NatPow(<<16>>, k)

\* the smallest power of two w >= from with n < 16 ** w
RECURSIVE HexWidth(_, _)
HexWidth(n, from) ==
    IF NatCmp(n, Pow16(from)) < 0 THEN from ELSE HexWidth(n, 2 * from)

\* the w hexadecimal digits of n < 16 ** w, for w a power of two
RECURSIVE HexBlock(_, _)
RECURSIVE HexHalves(_, _)
HexBlock(n, w) ==
    IF w = 1 THEN <<HexChars[NatToInt(n) + 1]>>
    ELSE HexHalves(NatDivMod(n, Pow16(w \div 2)), w \div 2)

HexHalves(qr, w) == Eager(qr, HexBlock(qr.quot, w) \o HexBlock(qr.rem, w))

\* s without its leading c characters, keeping the last character
LStrip(s, c) ==
    SubSeq(s, CHOOSE i \in 1..Len(s) :
                  (i = Len(s) \/ s[i] # c) /\ \A j \in 1..(i - 1) : s[j] = c,
           Len(s))

\* hex(i): lowercase digits, prefix 0x, a leading - for a negative int
hex(i) ==
    (IF i.neg THEN <<"-">> ELSE <<>>) \o <<"0", "x">>
        \o LStrip(HexBlock(i.mag, HexWidth(i.mag, 1)), "0")

\* s[2:]
SliceFrom2(s) == SubSeq(s, 3, Len(s))

\* s.zfill(width): zeros on the left, after a leading sign character
zfill(s, width) ==
    IF Len(s) >= width THEN s
    ELSE IF Len(s) >= 1 /\ s[1] \in {"+", "-"}
    THEN <<s[1]>> \o [i \in 1..(width - Len(s)) |-> "0"] \o SubSeq(s, 2, Len(s))
    ELSE [i \in 1..(width - Len(s)) |-> "0"] \o s

_format_result(value) ==
    LET int_value == IntOf(value)
        hex_value == zfill(SliceFrom2(hex(int_value)), 64)
    IN  <<"0", "x">> \o hex_value

(***************************************************************************)
(* The computations.  A call either returns a value or raises.             *)
(***************************************************************************)
Return(v) == [raised |-> FALSE, value |-> v]

Raise(e) == [raised |-> TRUE, exc |-> e]

\* Decimal("1000000"), Decimal("86400"), Decimal("1"),
\* Decimal("1000000000000000000")
Million == Dec(0, <<1, 0, 0>>, 0)

DaySeconds == Dec(0, <<86, 400>>, 0)

DecOne == Dec(0, One, 0)

E18 == Dec(0, Pow10(18), 0)

\* principal * (base ** time_days)
Compound(principal, base, time_days) ==
    Eager(<<base, time_days>>,
          IF PowRaises(base, time_days) THEN Raise("InvalidOperation")
          ELSE Return(DecMul(principal, DecPow(base, time_days))))

_calculate_compound_yield(principal, rate_ppm, time_seconds) ==
    LET daily_rate == DecDiv(rate_ppm, Million)
        time_days  == DecDiv(time_seconds, DaySeconds)
    IN  Compound(principal, DecAdd(DecOne, daily_rate), time_days)

_calculate_linear_yield(principal, rate_ppm, time_seconds) ==
    LET product      == DecMul(DecMul(principal, rate_ppm), time_seconds)
        yield_amount == DecDiv(product, DecMul(Million, DaySeconds))
    IN  Return(DecAdd(principal, yield_amount))

\* scaled / total_supply
PerShare(scaled, total_supply) ==
    IF DivRaises(scaled, total_supply)
    THEN Raise(IF IsZero(scaled.int) THEN "InvalidOperation" ELSE "DivisionByZero")
    ELSE Eager(scaled, Return(DecDiv(scaled, total_supply)))

\* (total_assets * Decimal("1000000000000000000")) / total_supply
SharePriceOf(total_assets, total_supply) ==
    IF total_assets.raised THEN total_assets
    ELSE PerShare(DecMul(total_assets.value, E18), total_supply)

\* _calculate_share_price with the fault of growing the assets by the linear
\* formula, as the comment on line 52 of the source announces
_calculate_share_price_linear(pool_size, total_supply, rate_ppm, time_seconds) ==
    SharePriceOf(_calculate_linear_yield(pool_size, rate_ppm, time_seconds),
                 total_supply)

_calculate_share_price(pool_size, total_supply, rate_ppm, time_seconds) ==
    SharePriceOf(_calculate_compound_yield(pool_size, rate_ppm, time_seconds),
                 total_supply)

\* return _format_result(r), an exception of the computation passing through
Formatted(r) == IF r.raised THEN r ELSE Return(_format_result(r.value))

calculate_compound_yield(principal, rate_ppm, time_seconds) ==
    IF ParseRaises(principal) \/ ParseRaises(rate_ppm) \/ ParseRaises(time_seconds)
    THEN Raise("InvalidOperation")
    ELSE Formatted(_calculate_compound_yield(ParseDecimal(principal),
                       ParseDecimal(rate_ppm), ParseDecimal(time_seconds)))

calculate_linear_yield(principal, rate_ppm, time_seconds) ==
    IF ParseRaises(principal) \/ ParseRaises(rate_ppm) \/ ParseRaises(time_seconds)
    THEN Raise("InvalidOperation")
    ELSE Formatted(_calculate_linear_yield(ParseDecimal(principal),
                       ParseDecimal(rate_ppm), ParseDecimal(time_seconds)))

calculate_share_price(pool_size, total_supply, rate_ppm, time_seconds) ==
    IF total_supply = <<"0">> THEN Return(_format_result(E18))
    ELSE IF \/ ParseRaises(pool_size) \/ ParseRaises(total_supply)
            \/ ParseRaises(rate_ppm) \/ ParseRaises(time_seconds)
    THEN Raise("InvalidOperation")
    ELSE Formatted(_calculate_share_price(ParseDecimal(pool_size),
                       ParseDecimal(total_supply), ParseDecimal(rate_ppm),
                       ParseDecimal(time_seconds)))

(***************************************************************************)
(* The program: one invocation, from sys.argv to the exit status           *)
(***************************************************************************)
VARIABLES
    argv,         \* sys.argv, the script name first
    pc,           \* "main", "returned", "raised", "exited"; "format", "formatted"
    result,       \* the string a calculate_* function returned
    stdout,       \* the strings written to standard output, in order
    exit_status,  \* -1 while the process runs, then its exit status
    value         \* the Decimal handed to _format_result on its own

vars == <<argv, pc, result, stdout, exit_status, value>>

Script == <<"m", "a", "t", "h", "_", "h", "e", "l", "p", "e", "r", ".", "p", "y">>

compound_yield == <<"c", "o", "m", "p", "o", "u", "n", "d", "_", "y", "i", "e", "l", "d">>

linear_yield == <<"l", "i", "n", "e", "a", "r", "_", "y", "i", "e", "l", "d">>

share_price == <<"s", "h", "a", "r", "e", "_", "p", "r", "i", "c", "e">>

Sentinel == <<"0", "x", "0">>

\* str(n) for a natural n
str(n) ==
    LStrip([k \in 1..(LimbDigits * Len(n)) |->
              LET limb == n[(k - 1) \div LimbDigits + 1]
                  unit == CASE (k - 1) % LimbDigits = 0 -> 100
                            [] (k - 1) % LimbDigits = 1 -> 10
                            [] OTHER -> 1
              IN  DigitChars[((limb \div unit) % 10) + 1]], "0")

U256Max == NatSub(NatPow(<<2>>, 256), One)

\* The argument strings of the model.  Each set holds well-formed literals
\* and at least one string that is no decimal literal.
Principals ==
    { <<"0">>, <<"1", "0", "0", "0">>, <<" ", "1", "_", "0", "0", "0", ".", "5">>,
      <<"-", "2", "5", "5">>, str(Pow10(18)), str(NatAdd(Pow10(50), One)),
      str(U256Max), <<"a", "b", "c">> }

PoolSizes ==
    { <<"1", "0", "0", "0">>, <<"1", ".", "5">>, str(NatAdd(Pow10(50), One)),
      <<"a", "b", "c">> }

Supplies ==
    { <<"0">>, <<"0", ".", "0">>, <<"0", "0">>, <<"3">>, <<"z", "z">> }

\* 0, +125%, -100% and -200% a day
Rates ==
    { <<"0">>, <<"1", "2", "5", "0", "0", "0", "0">>,
      <<"-", "1", "0", "0", "0", "0", "0", "0">>,
      <<"-", "2", "0", "0", "0", "0", "0", "0">>, <<"x">> }

\* no time, half a day, one day, two days
Times ==
    { <<"0">>, <<"4", "3", "2", "0", "0">>, <<"8", "6", "4", "0", "0">>,
      <<"1", "7", "2", "8", "0", "0">>, <<"1", "e">> }

BadLiterals == { <<"a", "b", "c">>, <<"z", "z">>, <<"x">>, <<"1", "e">> }

Fillers == { <<"1", "0", "0", "0">>, <<"0">> }

UnknownCommands == { <<"f", "o", "o">>, <<"l", "i", "n", "e", "a", "r">> }

\* the most arguments an invocation of the model passes after the command
MaxArgs == 5

Arity(command) == IF command = share_price THEN 4 ELSE 3

Commands == {compound_yield, linear_yield, share_price}

Invocations ==
    {<<Script>>}
    \cup { <<Script, command>> \o args :
             command \in UnknownCommands,
             args \in UNION { [1..n -> Fillers] : n \in 0..MaxArgs } }
    \cup UNION { { <<Script, command>> \o args :
                     args \in UNION { [1..n -> Fillers] :
                                        n \in (0..MaxArgs) \ {Arity(command)} } } :
                 command \in Commands }
    \cup { <<Script, command, p, r, t>> :
             command \in {compound_yield, linear_yield},
             p \in Principals, r \in Rates, t \in Times }
    \cup { <<Script, share_price, p, s, r, t>> :
             p \in PoolSizes, s \in Supplies, r \in Rates, t \in Times }

Init ==
    /\ argv \in Invocations
    /\ pc = "main"
    /\ result = <<>>
    /\ stdout = <<>>
    /\ exit_status = -1
    /\ value = DecOne

\* print("0x0", end=""); sys.exit(1)
Usage ==
    /\ stdout' = Append(stdout, Sentinel)
    /\ exit_status' = 1
    /\ pc' = "exited"
    /\ UNCHANGED <<argv, result, value>>

\* a call made inside the try block
Call(r) ==
    /\ pc' = IF r.raised THEN "raised" ELSE "returned"
    /\ result' = IF r.raised THEN result ELSE r.value
    /\ UNCHANGED <<argv, stdout, exit_status, value>>

\* if len(sys.argv) < 2
NoCommand ==
    /\ pc = "main"
    /\ Len(argv) < 2
    /\ Usage

\* a known command, if len(sys.argv) != 5 (6 for share_price)
WrongArgumentCount ==
    /\ pc = "main"
    /\ Len(argv) >= 2
    /\ argv[2] \in Commands
    /\ Len(argv) # Arity(argv[2]) + 2
    /\ Usage

\* the final else branch
UnknownCommand ==
    /\ pc = "main"
    /\ Len(argv) >= 2
    /\ argv[2] \notin Commands
    /\ Usage

CompoundYield ==
    /\ pc = "main"
    /\ Len(argv) = 5
    /\ argv[2] = compound_yield
    /\ Call(calculate_compound_yield(argv[3], argv[4], argv[5]))

LinearYield ==
    /\ pc = "main"
    /\ Len(argv) = 5
    /\ argv[2] = linear_yield
    /\ Call(calculate_linear_yield(argv[3], argv[4], argv[5]))

SharePrice ==
    /\ pc = "main"
    /\ Len(argv) = 6
    /\ argv[2] = share_price
    /\ Call(calculate_share_price(argv[3], argv[4], argv[5], argv[6]))

\* print(result, end=""), then the script ends
PrintResult ==
    /\ pc = "returned"
    /\ stdout' = Append(stdout, result)
    /\ exit_status' = 0
    /\ pc' = "exited"
    /\ UNCHANGED <<argv, result, value>>

\* the except clause with the fault of a missing sys.exit(1): the sentinel
\* is printed and the script runs off its end with status 0
ExceptHandlerWithoutExit ==
    /\ pc = "raised"
    /\ stdout' = Append(stdout, Sentinel)
    /\ exit_status' = 0
    /\ pc' = "exited"
    /\ UNCHANGED <<argv, result, value>>

\* except Exception: print("0x0", end=""); sys.exit(1)
ExceptHandler ==
    /\ pc = "raised"
    /\ stdout' = Append(stdout, Sentinel)
    /\ exit_status' = 1
    /\ pc' = "exited"
    /\ UNCHANGED <<argv, result, value>>

Next ==
    \/ NoCommand
    \/ WrongArgumentCount
    \/ UnknownCommand
    \/ CompoundYield
    \/ LinearYield
    \/ SharePrice
    \/ PrintResult
    \/ ExceptHandler

Spec == Init /\ [][Next]_vars

(***************************************************************************)
(* _format_result on its own: the value is drawn from Decimals of either   *)
(* sign, whole and fractional, on both sides of 2^256.                     *)
(***************************************************************************)
\* the largest power of ten, up or down, that scales a coefficient
MaxExp == 3

Coefficients ==
    { Zero, One, <<15>>, <<16>>, <<255>>, <<4, 96>>, <<999, 999>>, Pow10(18),
      NatPow(<<2>>, 128), U256Max, NatAdd(U256Max, One) }

FormatValues ==
    { Dec(sign, int, exp) :
        sign \in {0, 1}, int \in Coefficients, exp \in (-MaxExp)..MaxExp }

InitFormat ==
    /\ argv = <<>>
    /\ pc = "format"
    /\ result = <<>>
    /\ stdout = <<>>
    /\ exit_status = -1
    /\ value \in FormatValues

\* result = _format_result(value)
FormatResult ==
    /\ pc = "format"
    /\ result' = _format_result(value)
    /\ pc' = "formatted"
    /\ UNCHANGED <<argv, stdout, exit_status, value>>

NextFormat == FormatResult

SpecFormat == InitFormat /\ [][NextFormat]_vars

(***************************************************************************)
(* The vocabulary of the properties.  An encoding is read back digit by    *)
(* digit with a table of its own, and a truncation is stated by the two    *)
(* inequalities n <= |v| < n + 1 on the exact coefficient.                 *)
(***************************************************************************)
HexDigitValue ==
    [c \in {"0", "1", "2", "3", "4", "5", "6", "7", "8", "9",
            "a", "b", "c", "d", "e", "f"} |->
        CASE c = "0" -> 0 [] c = "1" -> 1 [] c = "2" -> 2 [] c = "3" -> 3
          [] c = "4" -> 4 [] c = "5" -> 5 [] c = "6" -> 6 [] c = "7" -> 7
          [] c = "8" -> 8 [] c = "9" -> 9 [] c = "a" -> 10 [] c = "b" -> 11
          [] c = "c" -> 12 [] c = "d" -> 13 [] c = "e" -> 14 [] c = "f" -> 15]

\* 0x followed by exactly 64 lowercase hexadecimal digits
IsEncodedHex(s) ==
    /\ Len(s) = 66
    /\ s[1] = "0"
    /\ s[2] = "x"
    /\ \A i \in 3..66 : s[i] \in DOMAIN HexDigitValue

\* the natural that the hexadecimal digits s[lo..hi] denote
\* upper * 16^k + lower
HexJoin(upper, lower, k) ==
    Eager(<<upper, lower>>, NatAdd(NatMul(upper, Pow16(k)), lower))

RECURSIVE HexValue(_, _, _)
HexValue(s, lo, hi) ==
    IF lo = hi THEN <<HexDigitValue[s[lo]]>>
    ELSE HexJoin(HexValue(s, lo, (lo + hi) \div 2),
                 HexValue(s, (lo + hi) \div 2 + 1, hi),
                 hi - (lo + hi) \div 2)

\* s is EncodedHex(n)
Encodes(s, n) == IsEncodedHex(s) /\ HexValue(s, 3, 66) = n

\* -1, 0, 1 as |d| < n, |d| = n, |d| > n, for a Decimal d and a natural n
CmpMagnitude(d, n) ==
    NatCmp(NatMul(d.int, Pow10(Max(d.exp, 0))),
           NatMul(n, Pow10(Max(-d.exp, 0))))

Below(d, n) == CmpMagnitude(d, n) < 0

\* n = truncate(|d|)
IsTruncationOf(n, d) == ~Below(d, n) /\ Below(d, NatAdd(n, One))

\* s is EncodedHex(truncate(|d|))
EncodesTruncationOf(s, d) ==
    IsEncodedHex(s) /\ IsTruncationOf(HexValue(s, 3, 66), d)

\* d >= 0
NonNegative(d) == d.sign = 0 \/ IsZero(d.int)

\* the program has ended in failure: the sentinel and nothing else on
\* standard output, exit status 1
Failed == stdout = <<Sentinel>> /\ exit_status = 1

\* the program has ended in success with s, and nothing else, on standard
\* output
Printed(s) == stdout = <<s>> /\ exit_status = 0

\* the invocation is command with the right number of arguments, and has ended
Ended(command) ==
    /\ pc = "exited"
    /\ Len(argv) = Arity(command) + 2
    /\ argv[2] = command

\* every argument in positions lo..hi of the invocation is a decimal literal
Parse(lo, hi) == \A i \in lo..hi : ~ParseRaises(argv[i])

(***************************************************************************)
(* Properties of _format_result, under SpecFormat                          *)
(***************************************************************************)
\* C4: for every non-negative value v with floor(v) <= 2^256 - 1,
\* _format_result(v) is exactly 66 characters, 0x followed by exactly 64
\* lowercase hexadecimal digits that are the zero-padded base-16
\* representation of floor(v); the fractional part is discarded, never
\* rounded up.
C4_FormatNonNegative ==
    (pc = "formatted" /\ NonNegative(value) /\ Below(value, NatAdd(U256Max, One)))
        => EncodesTruncationOf(result, value)

\* 999.999 is encoded as 999 = 0x3e7
C4_Witness ==
    /\ pc = "formatted"
    /\ value = Dec(0, <<999, 999>>, -3)
    /\ Encodes(result, <<999>>)

\* C10: for every negative value v, _format_result(v) is 0x followed by the
\* lowercase hexadecimal digits of |trunc(v)| left-padded with 0 to 64 digits,
\* with no sign and no character other than hexadecimal digits after the
\* prefix.
C10_FormatNegative ==
    (pc = "formatted" /\ ~NonNegative(value) /\ Below(value, NatAdd(U256Max, One)))
        => EncodesTruncationOf(result, value)

(***************************************************************************)
(* Properties of the program, under Spec                                   *)
(***************************************************************************)
\* no command, a command that is none of the three, or an argument count
\* that is not 3 (compound_yield, linear_yield) or 4 (share_price)
UsageFailure(a) ==
    \/ Len(a) < 2
    \/ a[2] \notin {compound_yield, linear_yield, share_price}
    \/ Len(a) - 2 # (IF a[2] = share_price THEN 4 ELSE 3)

\* the computation the invocation a selects
Outcome(a) ==
    CASE a[2] = compound_yield -> calculate_compound_yield(a[3], a[4], a[5])
      [] a[2] = linear_yield -> calculate_linear_yield(a[3], a[4], a[5])
      [] a[2] = share_price -> calculate_share_price(a[3], a[4], a[5], a[6])

\* the outcome r of the computation is what the program has shown: the
\* sentinel for an exception, the one encoded result otherwise
Shown(r) ==
    IF r.raised THEN Failed ELSE Printed(r.value) /\ r.value # Sentinel

\* C1: for every invocation, if no command is given, the command is none of
\* the three, the argument count is wrong, or the computation raises any
\* exception, then the entire standard output is 0x0, written exactly once,
\* and the exit status is 1; in every other invocation the output is a single
\* encoded result and the exit status is 0.
C1_SentinelOrResult ==
    pc = "exited" =>
        IF UsageFailure(argv) THEN Failed ELSE Shown(Outcome(argv))

\* linear_yield with a time that is no decimal literal: the exception of the
\* conversion ends as the sentinel
C1_Witness ==
    /\ Ended(linear_yield)
    /\ argv[3] = <<"1", "0", "0", "0">>
    /\ argv[5] = <<"1", "e">>
    /\ Failed

\* s is a non-empty string of decimal digits
IsNatLiteral(s) == Len(s) >= 1 /\ \A i \in 1..Len(s) : IsDigitChar(s[i])

\* the natural a string of decimal digits denotes
NatOf(s) == NatFromDigits(DigitsOf(s, 1, Len(s) + 1))

\* 1_000_000 * 86_400
PpmDaySeconds == NatMul(Pow10(6), <<86, 400>>)

\* floor(p + p * r * t / (1_000_000 * 86_400)) in exact arithmetic
ExactLinearYield(p, r, t) ==
    NatDivMod(NatAdd(NatMul(p, PpmDaySeconds), NatMul(NatMul(p, r), t)),
              PpmDaySeconds).quot

\* the program has printed EncodedHex(n)
PrintedEncodingOf(n) ==
    exit_status = 0 /\ Len(stdout) = 1 /\ Encodes(stdout[1], n)

\* C2: for all non-negative integer inputs whose exact result fits in 256
\* bits, calculate_linear_yield returns the encoding of
\* floor(principal + principal * rate_ppm * time_seconds / (1_000_000 * 86_400))
\* computed in exact rational arithmetic.
C2_LinearYieldExact ==
    (/\ Ended(linear_yield)
     /\ \A i \in 3..5 : IsNatLiteral(argv[i])
     /\ NatCmp(ExactLinearYield(NatOf(argv[3]), NatOf(argv[4]), NatOf(argv[5])),
               U256Max) <= 0)
        => PrintedEncodingOf(
               ExactLinearYield(NatOf(argv[3]), NatOf(argv[4]), NatOf(argv[5])))

\* the program has printed the encoding of the Decimal d, which is
\* EncodedHex(truncate(d)) where d is non-negative and below 2^256
PrintedEncodingOfDecimal(d) ==
    /\ stdout = <<_format_result(d)>>
    /\ (NonNegative(d) /\ Below(d, NatAdd(U256Max, One)))
           => EncodesTruncationOf(stdout[1], d)

\* the program has printed the encoding of the share price the claim states:
\* A * 10^18 / total_supply, A the compound-yield value, nothing truncated
PrintedClaimedSharePrice(A, total_supply) ==
    /\ ~A.raised
    /\ PrintedEncodingOfDecimal(DecDiv(DecMul(A.value, E18), total_supply))

C5_ZeroSupplyShortCircuit ==
    (/\ Ended(share_price)
     /\ Parse(3, 6)
     /\ IsZero(ParseDecimal(argv[4]).int))
        => PrintedEncodingOf(Pow10(18))

\* C6: for each command invoked with the correct argument count, if the
\* argument in any position cannot be parsed as a decimal literal then the
\* invocation prints the sentinel 0x0 and exits with status 1, whatever the
\* other arguments.
C6_UnparseableArgumentFails ==
    (/\ pc = "exited"
     /\ ~UsageFailure(argv)
     /\ \E i \in 3..Len(argv) : argv[i] \in BadLiterals)
        => Failed

\* r is the string s, returned
Returns(r, s) == ~r.raised /\ r.value = s

\* C7: for every non-negative decimal principal p and every time t, with
\* rate_ppm = "0", calculate_linear_yield(p, "0", t) and
\* calculate_compound_yield(p, "0", t) return the same string, the encoding
\* of truncate(p).
C7_ZeroRateNoGrowth ==
    (/\ pc = "exited"
     /\ ~UsageFailure(argv)
     /\ argv[2] \in {compound_yield, linear_yield}
     /\ argv[4] = <<"0">>
     /\ ~ParseRaises(argv[3])
     /\ ~ParseRaises(argv[5])
     /\ NonNegative(ParseDecimal(argv[3]))
     /\ Below(ParseDecimal(argv[3]), NatAdd(U256Max, One)))
        => /\ exit_status = 0
           /\ Len(stdout) = 1
           /\ Returns(calculate_linear_yield(argv[3], argv[4], argv[5]), stdout[1])
           /\ Returns(calculate_compound_yield(argv[3], argv[4], argv[5]), stdout[1])
           /\ EncodesTruncationOf(stdout[1], ParseDecimal(argv[3]))

\* C8: for every principal p and every rate_ppm r, including r = -1_000_000
\* where the base is zero and r < -1_000_000 where it is negative,
\* calculate_compound_yield(p, r, "0") succeeds and returns the encoding of
\* truncate(p).
C8_ZeroTimeNoGrowth ==
    (/\ Ended(compound_yield)
     /\ argv[5] = <<"0">>
     /\ Parse(3, 4)
     /\ NonNegative(ParseDecimal(argv[3]))
     /\ Below(ParseDecimal(argv[3]), NatAdd(U256Max, One)))
        => /\ exit_status = 0
           /\ Len(stdout) = 1
           /\ EncodesTruncationOf(stdout[1], ParseDecimal(argv[3]))

\* the base 1 + daily_rate that compound_yield computes
BaseOf(rate_ppm) == DecAdd(DecOne, DecDiv(ParseDecimal(rate_ppm), Million))

\* the time_days that compound_yield computes
DaysOf(time_seconds) == DecDiv(ParseDecimal(time_seconds), DaySeconds)

\* C9, as amended: whenever the base 1 + daily_rate that the compound_yield
\* command computes is negative and the time_days it computes is not an
\* integer, the program prints the sentinel 0x0 and exits 1, and never prints
\* an encoded result.
C9_NegativeBaseFractionalDays ==
    (/\ Ended(compound_yield)
     /\ Parse(4, 5)
     /\ ~NonNegative(BaseOf(argv[4]))
     /\ ~IsInteger(DaysOf(argv[5])))
        => Failed

\* compound_yield 1000 -2000000 43200: (-1) ** 0.5
C9_Witness ==
    /\ Ended(compound_yield)
    /\ argv[3] = <<"1", "0", "0", "0">>
    /\ argv[4] = <<"-", "2", "0", "0", "0", "0", "0", "0">>
    /\ argv[5] = <<"4", "3", "2", "0", "0">>
    /\ Failed

\* C9, as claimed: whenever rate_ppm < -1_000_000, the compound_yield command
\* fails for every time_seconds, whole multiples of 86_400 as well as
\* fractional days: it prints the sentinel 0x0 and exits 1.
C9_NegativeBaseAlwaysFails ==
    (/\ Ended(compound_yield)
     /\ ~ParseRaises(argv[4])
     /\ ParseDecimal(argv[4]).sign = 1
     /\ CmpMagnitude(ParseDecimal(argv[4]), Pow10(6)) > 0)
        => Failed

====
